---------------------------- MODULE Spec2Model ----------------------------
(***************************************************************************)
(* A model of package cinema (src/cinema.go): the Video edit accumulator   *)
(* and its command-line compiler, and the Clip concatenator with its       *)
(* manifest file.                                                          *)
(*                                                                         *)
(* time.Duration values are counted in milliseconds here (Second = 1000);  *)
(* the code counts nanoseconds, which only changes the number of fraction  *)
(* digits FormatFloat can produce.  Strings are TLA+ strings, argument     *)
(* vectors and slices are sequences.                                       *)
(***************************************************************************)
EXTENDS Integers, Sequences, FiniteSets, TLC

VARIABLES
    filepath,        \* Video.filepath
    width,           \* Video.width
    height,          \* Video.height
    fps,             \* Video.fps
    bitrate,         \* Video.bitrate
    start,           \* Video.start
    end,             \* Video.end
    duration,        \* Video.duration
    filters,         \* Video.filters
    additionalArgs,  \* Video.additionalArgs
    call,            \* the most recent call on the Video: [op, args], and in pre
                     \* the trim window it was made on
    ret,             \* what that call returned (<<>> for the methods returning nothing)
    history,         \* every SetSize and Crop call made so far, in call order
    probeFound,      \* whether ffprobe is on the PATH
    fs,              \* the manifest files: path -> [exists, writable, lines]
    dirWritable,     \* directory -> whether entries can be created and removed in it
    clip,            \* the Clip instances: [status, videosPath, concatListCache]
    pc,              \* where each instance's ConcatenateWithStreams call stands
    saveErr,         \* what saveConcatenateList returned to that call
    run,             \* the ffmpeg process of that call: its command, the output
                     \* name given, the manifest before the call and the one
                     \* ffmpeg was started on
    result           \* what the last Concatenate call of each instance returned

video == <<filepath, width, height, fps, bitrate, start, end, duration,
           filters, additionalArgs>>

videoVars == <<filepath, width, height, fps, bitrate, start, end, duration,
               filters, additionalArgs, call, ret, history>>

clipVars == <<probeFound, fs, dirWritable, clip, pc, saveErr, run, result>>

vars == <<filepath, width, height, fps, bitrate, start, end, duration,
          filters, additionalArgs, call, ret, history,
          probeFound, fs, dirWritable, clip, pc, saveErr, run, result>>

-----------------------------------------------------------------------------
(* Bounds of the model and the inputs the calls are drawn from.            *)

MaxFilters == 3
MaxArgs == 2
MaxStreams == 2

Second == 1000

\* a stream's tags.rotate: left out (the pointer is nil), an integer, or a
\* number Int64() rejects
NoTag == [set |-> FALSE, int |-> FALSE, value |-> 0]
Tag(n) == [set |-> TRUE, int |-> TRUE, value |-> n]
BadTag == [set |-> TRUE, int |-> FALSE, value |-> 0]

\* ffprobe reports Load is run on: duration (ms), bit rate, streams
ProbeReports ==
    { [durationMs |-> d, bitRate |-> b,
       streams |-> << [width |-> 1920, height |-> 1080, rotate |-> NoTag] >>]
      : d \in {0, 60 * Second}, b \in {0, 128000} }

\* the rotations streams are tagged with: the quarter turns, both ways, and
\* angles between them
Rotations == { 0, 45, 90, 135, 180, 270, 360, -90, -180, -270 }

\* reported streams: no picture, one dimension zero, portrait, landscape
LoadStreams ==
    { [width |-> d[1], height |-> d[2], rotate |-> t] :
        d \in { <<0, 0>>, <<0, 720>>, <<1080, 1920>>, <<640, 480>> },
        t \in { NoTag, BadTag } \cup { Tag(n) : n \in Rotations } }

\* reports with no stream up to MaxStreams streams
LoadReports ==
    { [durationMs |-> 60 * Second, bitRate |-> 128000, streams |-> ss] :
        ss \in UNION { [1..n -> LoadStreams] : n \in 0..MaxStreams } }

\* time arguments: negative, inside the source, fractional, beyond the source
TimeArgs == { -Second, 10 * Second, 20 * Second + 500, 61 * Second }

FPSArgs == { 48 }
BitrateArgs == { 0, 200000 }
SizeArgs == { <<400, 300>> }
CropArgs == { <<0, 0, 200, 200>> }
Outputs == { "out.mov", "b.mp4" }

\* reports for the dimensions: landscape, portrait turned a quarter, and a
\* sound stream ahead of a picture turned upside down
SizeReports ==
    { [durationMs |-> 60 * Second, bitRate |-> 128000, streams |-> ss] :
        ss \in { << [width |-> 1920, height |-> 1080, rotate |-> NoTag] >>,
                 << [width |-> 1080, height |-> 1920, rotate |-> Tag(90)] >>,
                 << [width |-> 0, height |-> 0, rotate |-> NoTag],
                    [width |-> 640, height |-> 480, rotate |-> Tag(180)] >> } }

\* sizes and rectangles of either sign
WideSizeArgs == { <<400, 300>>, <<-1, 300>> }
WideCropArgs == { <<0, 0, 200, 200>>, <<10, -10, -5, -7>> }

-----------------------------------------------------------------------------
(* strconv.Itoa, fmt's %d, and FormatFloat(d.Seconds(), 'f', -1, 64).      *)

Digit(d) ==
    CASE d = 0 -> "0" [] d = 1 -> "1" [] d = 2 -> "2" [] d = 3 -> "3"
      [] d = 4 -> "4" [] d = 5 -> "5" [] d = 6 -> "6" [] d = 7 -> "7"
      [] d = 8 -> "8" [] d = 9 -> "9"

RECURSIVE NatStr(_)
NatStr(n) == IF n < 10 THEN Digit(n) ELSE NatStr(n \div 10) \o Digit(n % 10)

Itoa(n) == IF n < 0 THEN "-" \o NatStr(-n) ELSE NatStr(n)

\* the fraction digits of m thousandths (0 < m < Second), trailing zeros dropped
FracStr(m) ==
    LET h == m \div 100
        t == (m \div 10) % 10
        u == m % 10
    IN  IF u # 0 THEN Digit(h) \o Digit(t) \o Digit(u)
        ELSE IF t # 0 THEN Digit(h) \o Digit(t)
        ELSE Digit(h)

\* the shortest decimal that reads back as d.Seconds()
FormatSeconds(d) ==
    LET a == IF d < 0 THEN -d ELSE d
        whole == NatStr(a \div Second)
        frac == a % Second
    IN  (IF d < 0 THEN "-" ELSE "")
        \o whole
        \o (IF frac = 0 THEN "" ELSE "." \o FracStr(frac))

-----------------------------------------------------------------------------
(* Load: the Video a probe report gives.                                   *)

\* the stream that qualifies last
dsIndexLast(streams) ==
    LET ok == { i \in 1..Len(streams) :
                  streams[i].width # 0 /\ streams[i].height # 0 }
    IN  IF ok = {} THEN 1 ELSE CHOOSE i \in ok : \A j \in ok : i >= j

\* the index of the stream the dimensions are taken from
dsIndex(streams) ==
    LET ok == { i \in 1..Len(streams) :
                  streams[i].width # 0 /\ streams[i].height # 0 }
    IN  IF ok = {} THEN 1 ELSE CHOOSE i \in ok : \A j \in ok : i <= j

\* Go's integer division and remainder truncate toward zero
GoDiv(a, b) == IF a >= 0 THEN a \div b ELSE -((-a) \div b)
GoRem(a, b) == a - b * GoDiv(a, b)

\* a flip only when flipCount % 2 is 1
flippedRemainderOne(rotation) == GoRem(GoDiv(rotation, 90), 2) = 1

\* whether width and height are swapped for a rotation
flipped(rotation) == GoRem(GoDiv(rotation, 90), 2) # 0

Load(path, desc) ==
    IF Len(desc.streams) = 0
    THEN [ok |-> FALSE,
          err |-> "cinema.Load: ffprobe does not contain stream data"]
    ELSE LET s == desc.streams[dsIndex(desc.streams)]
             flip == s.rotate.set /\ flipped(s.rotate.value)
         IN  IF s.rotate.set /\ ~s.rotate.int
             THEN [ok |-> FALSE,
                   err |-> "cinema.Load: ffprobe returned invalid rotation"]
             ELSE
             [ok |-> TRUE,
              filepath |-> path,
              width |-> IF flip THEN s.height ELSE s.width,
              height |-> IF flip THEN s.width ELSE s.height,
              fps |-> 30,
              bitrate |-> desc.bitRate,
              start |-> 0,
              end |-> desc.durationMs,
              duration |-> desc.durationMs]

\* the state right after Load(path) has returned a Video for report desc
Loaded(path, desc) ==
    LET v == Load(path, desc)
    IN  /\ v.ok
        /\ filepath = v.filepath
        /\ width = v.width
        /\ height = v.height
        /\ fps = v.fps
        /\ bitrate = v.bitrate
        /\ start = v.start
        /\ end = v.end
        /\ duration = v.duration
        /\ filters = <<>>
        /\ additionalArgs = <<>>
        /\ call = [op |-> "Load", args |-> <<desc>>,
                    pre |-> [start |-> v.start, end |-> v.end]]
        /\ ret = <<>>
        /\ history = <<>>

\* no Video: before Load, and after a Load that returned nil and an error
NoVideo ==
    /\ filepath = ""
    /\ width = 0
    /\ height = 0
    /\ fps = 0
    /\ bitrate = 0
    /\ start = 0
    /\ end = 0
    /\ duration = 0
    /\ filters = <<>>
    /\ additionalArgs = <<>>
    /\ history = <<>>

\* Load(path) on a file ffprobe reports desc for
LoadCall(path, desc) ==
    /\ call.op = "none"
    /\ LET v == Load(path, desc)
       IN  /\ filepath' = IF v.ok THEN v.filepath ELSE ""
           /\ width' = IF v.ok THEN v.width ELSE 0
           /\ height' = IF v.ok THEN v.height ELSE 0
           /\ fps' = IF v.ok THEN v.fps ELSE 0
           /\ bitrate' = IF v.ok THEN v.bitrate ELSE 0
           /\ start' = IF v.ok THEN v.start ELSE 0
           /\ end' = IF v.ok THEN v.end ELSE 0
           /\ duration' = IF v.ok THEN v.duration ELSE 0
           /\ ret' = IF v.ok THEN <<>> ELSE << v.err >>
    /\ filters' = <<>>
    /\ additionalArgs' = <<>>
    /\ history' = <<>>
    /\ call' = [op |-> "Load", args |-> <<desc>>,
                pre |-> [start |-> start', end |-> end']]
    /\ UNCHANGED clipVars

-----------------------------------------------------------------------------
(* The trim window.                                                        *)

\* clampToDuration without its floor: a negative time passes through
clampNoFloor(t) ==
    IF t > duration THEN duration ELSE t

clampToDuration(t) ==
    LET t1 == IF t < 0 THEN 0 ELSE t
    IN  IF t1 > duration THEN duration ELSE t1

\* SetStart without the pull-up of end
SetStartKeepsEnd(w, t) ==
    [start |-> clampToDuration(t), end |-> w.end]

\* the window [start, end] after SetStart(t) on window w
AfterSetStart(w, t) ==
    LET s == clampToDuration(t)
    IN  [start |-> s, end |-> IF s > w.end THEN s ELSE w.end]

\* SetEnd with the current end, not the source duration, as its ceiling
SetEndCeilingIsEnd(w, t) ==
    LET t1 == IF t < 0 THEN 0 ELSE t
        e == IF t1 > w.end THEN w.end ELSE t1
    IN  [start |-> IF e < w.start THEN e ELSE w.start, end |-> e]

\* the window after SetEnd(t) on window w
AfterSetEnd(w, t) ==
    LET e == clampToDuration(t)
    IN  [start |-> IF e < w.start THEN e ELSE w.start, end |-> e]

\* Trim that reorders an inverted range instead of ignoring it
TrimSwapsInverted(w, s, e) ==
    IF s <= e THEN AfterSetEnd(AfterSetStart(w, s), e)
    ELSE AfterSetEnd(AfterSetStart(w, e), s)

\* Trim that takes its times relative to the current window
TrimRelative(w, s, e) ==
    IF s <= e THEN AfterSetEnd(AfterSetStart(w, w.start + s), w.start + e) ELSE w

\* the window after Trim(s, e) on window w
AfterTrim(w, s, e) ==
    IF s <= e THEN AfterSetEnd(AfterSetStart(w, s), e) ELSE w

window == [start |-> start, end |-> end]

Returns(op, args, value) ==
    /\ call' = [op |-> op, args |-> args, pre |-> window]
    /\ ret' = value

SetStart(t) ==
    /\ start' = AfterSetStart(window, t).start
    /\ end' = AfterSetStart(window, t).end
    /\ Returns("SetStart", <<t>>, <<>>)
    /\ UNCHANGED <<filepath, width, height, fps, bitrate, duration,
                   filters, additionalArgs, history>>
    /\ UNCHANGED clipVars

SetEnd(t) ==
    /\ start' = AfterSetEnd(window, t).start
    /\ end' = AfterSetEnd(window, t).end
    /\ Returns("SetEnd", <<t>>, <<>>)
    /\ UNCHANGED <<filepath, width, height, fps, bitrate, duration,
                   filters, additionalArgs, history>>
    /\ UNCHANGED clipVars

Trim(s, e) ==
    /\ start' = AfterTrim(window, s, e).start
    /\ end' = AfterTrim(window, s, e).end
    /\ Returns("Trim", <<s, e>>, <<>>)
    /\ UNCHANGED <<filepath, width, height, fps, bitrate, duration,
                   filters, additionalArgs, history>>
    /\ UNCHANGED clipVars

-----------------------------------------------------------------------------
(* The other edits.                                                        *)

SetFPS(f) ==
    /\ fps' = f
    /\ Returns("SetFPS", <<f>>, <<>>)
    /\ UNCHANGED <<filepath, width, height, bitrate, start, end, duration,
                   filters, additionalArgs, history>>
    /\ UNCHANGED clipVars

SetBitrate(b) ==
    /\ bitrate' = b
    /\ Returns("SetBitrate", <<b>>, <<>>)
    /\ UNCHANGED <<filepath, width, height, fps, start, end, duration,
                   filters, additionalArgs, history>>
    /\ UNCHANGED clipVars

\* SetSize that stores no negative size
SetSizeFloored(w, h) ==
    /\ Len(filters) < MaxFilters
    /\ width' = IF w < 0 THEN 0 ELSE w
    /\ height' = IF h < 0 THEN 0 ELSE h
    /\ filters' = Append(filters, "scale=" \o Itoa(w) \o ":" \o Itoa(h))
    /\ history' = Append(history, [op |-> "SetSize", args |-> <<w, h>>])
    /\ Returns("SetSize", <<w, h>>, <<>>)
    /\ UNCHANGED <<filepath, fps, bitrate, start, end, duration, additionalArgs>>
    /\ UNCHANGED clipVars

SetSize(w, h) ==
    /\ Len(filters) < MaxFilters
    /\ width' = w
    /\ height' = h
    /\ filters' = Append(filters, "scale=" \o Itoa(w) \o ":" \o Itoa(h))
    /\ history' = Append(history, [op |-> "SetSize", args |-> <<w, h>>])
    /\ Returns("SetSize", <<w, h>>, <<>>)
    /\ UNCHANGED <<filepath, fps, bitrate, start, end, duration, additionalArgs>>
    /\ UNCHANGED clipVars

Width == width
Height == height

\* Crop that leaves width and height as they were
CropKeepsSize(x, y, w, h) ==
    /\ Len(filters) < MaxFilters
    /\ filters' = Append(filters, "crop=" \o Itoa(w) \o ":" \o Itoa(h)
                                   \o ":" \o Itoa(x) \o ":" \o Itoa(y))
    /\ history' = Append(history, [op |-> "Crop", args |-> <<x, y, w, h>>])
    /\ Returns("Crop", <<x, y, w, h>>, <<>>)
    /\ UNCHANGED <<filepath, width, height, fps, bitrate, start, end, duration,
                   additionalArgs>>
    /\ UNCHANGED clipVars

Crop(x, y, w, h) ==
    /\ Len(filters) < MaxFilters
    /\ width' = w
    /\ height' = h
    /\ filters' = Append(filters, "crop=" \o Itoa(w) \o ":" \o Itoa(h)
                                   \o ":" \o Itoa(x) \o ":" \o Itoa(y))
    /\ history' = Append(history, [op |-> "Crop", args |-> <<x, y, w, h>>])
    /\ Returns("Crop", <<x, y, w, h>>, <<>>)
    /\ UNCHANGED <<filepath, fps, bitrate, start, end, duration, additionalArgs>>
    /\ UNCHANGED clipVars

\* Mute that adds its token only to a Video not muted yet
MuteOnce ==
    /\ Len(additionalArgs) < MaxArgs
    /\ additionalArgs' = IF additionalArgs = <<>> THEN << "-an" >>
                         ELSE additionalArgs
    /\ Returns("Mute", <<>>, <<>>)
    /\ UNCHANGED <<filepath, width, height, fps, bitrate, start, end, duration,
                   filters, history>>
    /\ UNCHANGED clipVars

Mute ==
    /\ Len(additionalArgs) < MaxArgs
    /\ additionalArgs' = Append(additionalArgs, "-an")
    /\ Returns("Mute", <<>>, <<>>)
    /\ UNCHANGED <<filepath, width, height, fps, bitrate, start, end, duration,
                   filters, history>>
    /\ UNCHANGED clipVars

-----------------------------------------------------------------------------
(* Command compilation.                                                    *)

\* strings.Join(elems, sep)
RECURSIVE Join(_, _)
Join(elems, sep) ==
    IF Len(elems) = 0 THEN ""
    ELSE IF Len(elems) = 1 THEN elems[1]
    ELSE elems[1] \o sep \o Join(Tail(elems), sep)

\* the -vf argument built without the test for an empty filter list
filterChainAlwaysComma ==
    Join(filters, ",") \o "," \o "setsar=1,fps=fps=" \o Itoa(fps)

\* the -vf argument
filterChain ==
    (IF Len(filters) > 0 THEN Join(filters, ",") \o "," ELSE "")
    \o "setsar=1,fps=fps=" \o Itoa(fps)

\* the vector with the additional arguments put after the filter chain
cmdlineArgsAfterFilters(output) ==
    << "ffmpeg", "-y",
       "-i", filepath,
       "-ss", FormatSeconds(start),
       "-t", FormatSeconds(end - start),
       "-vb", Itoa(bitrate) >>
    \o << "-vf", filterChain, "-strict", "-2" >>
    \o additionalArgs
    \o << output >>

\* the vector with -vb left out when the bitrate is 0
cmdlineOmitsZeroBitrate(output) ==
    << "ffmpeg", "-y",
       "-i", filepath,
       "-ss", FormatSeconds(start),
       "-t", FormatSeconds(end - start) >>
    \o (IF bitrate = 0 THEN << >> ELSE << "-vb", Itoa(bitrate) >>)
    \o additionalArgs
    \o << "-vf", filterChain, "-strict", "-2" >>
    \o << output >>

\* the vector CommandLine(output) returns
cmdline(output) ==
    << "ffmpeg", "-y",
       "-i", filepath,
       "-ss", FormatSeconds(start),
       "-t", FormatSeconds(end - start),
       "-vb", Itoa(bitrate) >>
    \o additionalArgs
    \o << "-vf", filterChain, "-strict", "-2" >>
    \o << output >>

\* CommandLine that appends the trailing fragment to v.filters itself
CommandLineAppendsFilter(output) ==
    /\ filters' = Append(filters, "setsar=1,fps=fps=" \o Itoa(fps))
    /\ Returns("CommandLine", <<output>>,
               << "ffmpeg", "-y", "-i", filepath,
                  "-ss", FormatSeconds(start),
                  "-t", FormatSeconds(end - start),
                  "-vb", Itoa(bitrate) >>
               \o additionalArgs
               \o << "-vf", Join(filters', ","), "-strict", "-2", output >>)
    /\ UNCHANGED <<filepath, width, height, fps, bitrate, start, end, duration,
                   additionalArgs, history>>
    /\ UNCHANGED clipVars

CommandLine(output) ==
    /\ Returns("CommandLine", <<output>>, cmdline(output))
    /\ UNCHANGED <<filepath, width, height, fps, bitrate, start, end, duration,
                   filters, additionalArgs, history>>
    /\ UNCHANGED clipVars

-----------------------------------------------------------------------------
(* The Clip concatenator: paths, the manifest file, NewClip, Concatenate.  *)
(* A path is the sequence of its elements; <<>> is the directory ".".      *)

Clips == { 1, 2 }

PathA == << "clips", "a.mov" >>
PathB == << "clips", "b.mov" >>
PathC == << "takes", "c.mov" >>
PathGone == << "clips", "gone.mov" >>

\* the video files on disk
Videos == { PathA, PathB, PathC }

\* the lists NewClip is called with
ClipLists == { << PathA, PathB >>, << PathA >>, << PathA, PathA >>,
               << PathC, PathA >>, << PathA, PathGone >>, << >> }

\* the output names Concatenate is called with: a file name, one with a
\* directory, one that climbs out of the directory
ClipOutputs == { << "concat.mov" >>, << "out", "concat.mov" >>,
                 << "..", "concat.mov" >> }

Dirs == { << "clips" >>, << "takes" >> }
ManifestPaths == { << "clips", "concat.txt" >>, << "takes", "concat.txt" >> }

\* filepath.Clean on the elements: "" and "." are dropped, ".." takes the
\* element before it away (none above the root; kept at the head of a relative
\* path). A first element "" marks a rooted path.
RECURSIVE CleanInto(_, _, _)
CleanInto(stack, rest, rooted) ==
    IF rest = << >> THEN stack
    ELSE LET e == Head(rest)
         IN  IF e = "" \/ e = "."
             THEN CleanInto(stack, Tail(rest), rooted)
             ELSE IF e = ".."
             THEN IF stack # << >> /\ stack[Len(stack)] # ".."
                  THEN CleanInto(SubSeq(stack, 1, Len(stack) - 1), Tail(rest), rooted)
                  ELSE IF rooted
                  THEN CleanInto(stack, Tail(rest), rooted)
                  ELSE CleanInto(Append(stack, e), Tail(rest), rooted)
             ELSE CleanInto(Append(stack, e), Tail(rest), rooted)

filepathClean(path) ==
    LET rooted == path # << >> /\ path[1] = ""
    IN  (IF rooted THEN << "" >> ELSE << >>) \o CleanInto(<< >>, path, rooted)

filepathDir(path) == filepathClean(SubSeq(path, 1, Len(path) - 1))
filepathBase(path) == path[Len(path)]

\* filepath.Join(dir, path) that drops the directory part of path
filepathJoinBase(dir, path) ==
    filepathClean((IF dir = << >> THEN << "." >> ELSE dir)
                  \o << path[Len(path)] >>)

\* filepath.Join(dir, path): the two joined by a separator, then cleaned
filepathJoin(dir, path) ==
    filepathClean((IF dir = << >> THEN << "." >> ELSE dir) \o path)

\* the path as the string the command line carries
PathString(path) ==
    IF path = << >> THEN "."
    ELSE IF path = << "" >> THEN "/"
    ELSE Join(path, "/")

Absent == [exists |-> FALSE, writable |-> FALSE, lines |-> << >>]

\* a concat.txt that was in the directory before the call
Leftover(w) == [exists |-> TRUE, writable |-> w, lines |-> << "file 'old.mov'" >>]

\* os.Create(path): O_RDWR|O_CREATE|O_TRUNC. An existing file must be writable,
\* a new one needs a writable directory.
OsCreate(fsys, path) ==
    IF fsys[path].exists
    THEN IF fsys[path].writable
         THEN [err |-> "nil",
               fs |-> [fsys EXCEPT ![path].lines = << >>]]
         ELSE [err |-> "permission denied", fs |-> fsys]
    ELSE IF dirWritable[filepathDir(path)]
         THEN [err |-> "nil",
               fs |-> [fsys EXCEPT ![path] =
                          [exists |-> TRUE, writable |-> TRUE, lines |-> << >>]]]
         ELSE [err |-> "permission denied", fs |-> fsys]

\* os.Remove(path): the file must exist and its directory be writable.
OsRemove(fsys, path) ==
    IF ~fsys[path].exists
    THEN [err |-> "no such file", fs |-> fsys]
    ELSE IF dirWritable[filepathDir(path)]
         THEN [err |-> "nil", fs |-> [fsys EXCEPT ![path] = Absent]]
         ELSE [err |-> "permission denied", fs |-> fsys]

NoClip == [status |-> "none", videosPath |-> << >>, concatListCache |-> << >>]

\* NewClip that keeps every manifest in one directory
NewClipOneManifest(videoPath) ==
    IF ~probeFound
    THEN [NoClip EXCEPT !.status = "error"]
    ELSE IF \E k \in 1..Len(videoPath) : videoPath[k] \notin Videos
    THEN [NoClip EXCEPT !.status = "error"]
    ELSE IF Len(videoPath) = 0
    THEN [NoClip EXCEPT !.status = "panic"]
    ELSE [status |-> "ok",
          videosPath |-> videoPath,
          concatListCache |-> << "clips", "concat.txt" >>]

\* what NewClip(videoPath) returns: a Clip, an error, or a panic on videoPath[0]
NewClipResult(videoPath) ==
    IF ~probeFound
    THEN [NoClip EXCEPT !.status = "error"]
    ELSE IF \E k \in 1..Len(videoPath) : videoPath[k] \notin Videos
    THEN [NoClip EXCEPT !.status = "error"]
    ELSE IF Len(videoPath) = 0
    THEN [NoClip EXCEPT !.status = "panic"]
    ELSE [status |-> "ok",
          videosPath |-> videoPath,
          concatListCache |->
              filepathJoin(filepathDir(videoPath[1]), << "concat.txt" >>)]

NewClip(i, videoPath) ==
    /\ clip[i].status = "none"
    /\ clip' = [clip EXCEPT ![i] = NewClipResult(videoPath)]
    /\ UNCHANGED <<probeFound, fs, dirWritable, pc, saveErr, run, result>>
    /\ UNCHANGED videoVars

\* the command line with only the file name of output kept
ClipCommandLineBaseOnly(c, output) ==
    << "ffmpeg", "-y",
       "-f", "concat",
       "-i", PathString(c.concatListCache),
       "-c", "copy" >>
    \o << "-fflags", "+genpts",
          PathString(filepathJoinBase(filepathDir(c.videosPath[1]), output)) >>

\* the command line of Clip c for output
ClipCommandLine(c, output) ==
    << "ffmpeg", "-y",
       "-f", "concat",
       "-i", PathString(c.concatListCache),
       "-c", "copy" >>
    \o << "-fflags", "+genpts",
          PathString(filepathJoin(filepathDir(c.videosPath[1]), output)) >>

\* the lines saveConcatenateList writes
ManifestLines(c) ==
    [k \in 1..Len(c.videosPath) |->
        "file '" \o filepathBase(c.videosPath[k]) \o "'"]

\* saveConcatenateList that opens the manifest for appending
saveConcatenateListAppends(c, fsys) ==
    LET f == OsCreate(fsys, c.concatListCache)
    IN  IF f.err # "nil"
        THEN f
        ELSE [err |-> "nil",
              fs |-> [f.fs EXCEPT ![c.concatListCache].lines =
                         fsys[c.concatListCache].lines \o ManifestLines(c)]]

saveConcatenateList(c, fsys) ==
    LET f == OsCreate(fsys, c.concatListCache)
    IN  IF f.err # "nil"
        THEN f
        ELSE [err |-> "nil",
              fs |-> [f.fs EXCEPT ![c.concatListCache].lines = ManifestLines(c)]]

deleteConcatenateList(c, fsys) == OsRemove(fsys, c.concatListCache)

\* no ConcatenateWithStreams call is under way
NoCallUnderWay == \A j \in Clips : pc[j] = "idle"

\* ConcatenateWithStreams up to cmd.Run() starting ffmpeg: the manifest is saved
\* (the error dropped), the removal deferred, the command built and started.
ConcatenateStart(i, output) ==
    /\ clip[i].status = "ok"
    /\ pc[i] = "idle"
    /\ LET saved == saveConcatenateList(clip[i], fs)
       IN  /\ fs' = saved.fs
           /\ saveErr' = [saveErr EXCEPT ![i] = saved.err]
           /\ run' = [run EXCEPT ![i] =
                         [cmd |-> ClipCommandLine(clip[i], output),
                          output |-> output,
                          before |-> fs[clip[i].concatListCache],
                          manifest |-> saved.fs[clip[i].concatListCache]]]
    /\ pc' = [pc EXCEPT ![i] = "running"]
    /\ result' = [result EXCEPT ![i] = "none"]
    /\ UNCHANGED <<probeFound, dirWritable, clip>>
    /\ UNCHANGED videoVars

\* ffmpeg exits, cmd.Run() returns, the deferred deleteConcatenateList runs and
\* the call returns. ffmpeg fails when it was started without its manifest.
ConcatenateReturn(i, ffmpegOK) ==
    /\ pc[i] = "running"
    /\ ffmpegOK => run[i].manifest.exists
    /\ fs' = deleteConcatenateList(clip[i], fs).fs
    /\ result' = [result EXCEPT ![i] =
                     IF ffmpegOK THEN "nil"
                     ELSE "cinema.Video.Concatenate: ffmpeg failed"]
    /\ pc' = [pc EXCEPT ![i] = "idle"]
    /\ UNCHANGED <<probeFound, dirWritable, clip, saveErr, run>>
    /\ UNCHANGED videoVars

NoRun == [cmd |-> << >>, output |-> << >>, before |-> Absent, manifest |-> Absent]

\* no Clip made yet, on any state of the manifest files and directories
ClipEnv ==
    /\ probeFound \in BOOLEAN
    /\ fs \in [ManifestPaths -> { Absent, Leftover(TRUE), Leftover(FALSE) }]
    /\ dirWritable \in [Dirs -> BOOLEAN]
    /\ clip = [i \in Clips |-> NoClip]
    /\ pc = [i \in Clips |-> "idle"]
    /\ saveErr = [i \in Clips |-> "nil"]
    /\ run = [i \in Clips |-> NoRun]
    /\ result = [i \in Clips |-> "none"]

\* the Clip side left out: nothing made, nothing on disk
ClipUnused ==
    /\ probeFound = TRUE
    /\ fs = [p \in ManifestPaths |-> Absent]
    /\ dirWritable = [d \in Dirs |-> TRUE]
    /\ clip = [i \in Clips |-> NoClip]
    /\ pc = [i \in Clips |-> "idle"]
    /\ saveErr = [i \in Clips |-> "nil"]
    /\ run = [i \in Clips |-> NoRun]
    /\ result = [i \in Clips |-> "none"]

-----------------------------------------------------------------------------
(* The Video and its edits.                                                *)

Init ==
    /\ \E desc \in ProbeReports : Loaded("in.mp4", desc)
    /\ ClipUnused

Next ==
    \/ \E t \in TimeArgs : SetStart(t)
    \/ \E t \in TimeArgs : SetEnd(t)
    \/ \E s, e \in TimeArgs : Trim(s, e)
    \/ \E f \in FPSArgs : SetFPS(f)
    \/ \E b \in BitrateArgs : SetBitrate(b)
    \/ \E a \in SizeArgs : SetSize(a[1], a[2])
    \/ \E a \in CropArgs : Crop(a[1], a[2], a[3], a[4])
    \/ Mute
    \/ \E o \in Outputs : CommandLine(o)

Spec == Init /\ [][Next]_vars

(* The dimensions under every edit, sizes of either sign included.         *)

InitSize ==
    /\ \E desc \in SizeReports : Loaded("in.mp4", desc)
    /\ ClipUnused

NextSize ==
    \/ \E a \in WideSizeArgs : SetSize(a[1], a[2])
    \/ \E a \in WideCropArgs : Crop(a[1], a[2], a[3], a[4])
    \/ SetStart(10 * Second)
    \/ SetEnd(20 * Second)
    \/ Trim(10 * Second, 20 * Second)
    \/ \E f \in FPSArgs : SetFPS(f)
    \/ SetBitrate(0)
    \/ Mute

SpecSize == InitSize /\ [][NextSize]_vars

(* Load, on every report.                                                  *)

InitLoad ==
    /\ NoVideo
    /\ call = [op |-> "none", args |-> <<>>, pre |-> [start |-> 0, end |-> 0]]
    /\ ret = <<>>
    /\ ClipUnused

NextLoad ==
    /\ call.op = "none"
    /\ \E desc \in LoadReports : LoadCall("in.mp4", desc)

SpecLoad == InitLoad /\ [][NextLoad]_vars

(* The Clips, one Concatenate call at a time.                              *)

InitClip ==
    /\ Loaded("in.mp4", CHOOSE desc \in ProbeReports : desc.durationMs = 0)
    /\ ClipEnv

NextClip ==
    \/ \E i \in Clips, l \in ClipLists : NewClip(i, l)
    \/ \E i \in Clips, o \in ClipOutputs : NoCallUnderWay /\ ConcatenateStart(i, o)
    \/ \E i \in Clips, ok \in BOOLEAN : ConcatenateReturn(i, ok)

SpecClip == InitClip /\ [][NextClip]_vars

(* The Clips used from several goroutines: a ConcatenateWithStreams call   *)
(* may start while another is waiting for its ffmpeg.                      *)

NextConc ==
    \/ \E i \in Clips, l \in ClipLists : NewClip(i, l)
    \/ \E i \in Clips, o \in ClipOutputs : ConcatenateStart(i, o)
    \/ \E i \in Clips, ok \in BOOLEAN : ConcatenateReturn(i, ok)

SpecConc == InitClip /\ [][NextConc]_vars

-----------------------------------------------------------------------------
(* The claims.                                                             *)

Max(a, b) == IF a >= b THEN a ELSE b
Min(a, b) == IF a <= b THEN a ELSE b

\* t clamped into [0, sourceDuration]
Clamped(t) == Max(0, Min(t, duration))

\* C1: after every sequence of edit calls, 0 <= start <= end <= sourceDuration.
C1_WindowInvariant ==
    /\ 0 <= start
    /\ start <= end
    /\ end <= duration

\* a SetEnd with a negative time has pulled a trimmed window down to [0, 0]
C1_Witness ==
    /\ call.op = "SetEnd"
    /\ call.args[1] < 0
    /\ call.pre.start > 0
    /\ start = 0
    /\ end = 0

\* C2: SetStart(t) sets start to max(0, min(t, sourceDuration)); end moves up to
\* that value when t is greater than the end before the call, and is left alone
\* otherwise.
C2_SetStart ==
    call.op = "SetStart" =>
        LET t == call.args[1]
        IN  /\ start = Clamped(t)
            /\ end = IF t > call.pre.end THEN Clamped(t) ELSE call.pre.end

\* a SetStart beyond the end has moved the end up
C2_Witness ==
    /\ call.op = "SetStart"
    /\ call.args[1] > call.pre.end
    /\ end > call.pre.end
    /\ end = start

\* C3: SetEnd(t) sets end to max(0, min(t, sourceDuration)), the ceiling being
\* the source duration whatever was trimmed before; start is pulled down to that
\* value when it is below the start before the call, and is left alone otherwise.
C3_SetEnd ==
    call.op = "SetEnd" =>
        LET c == Clamped(call.args[1])
        IN  /\ end = c
            /\ start = IF c < call.pre.start THEN c ELSE call.pre.start

\* a SetEnd beyond the source, on a window trimmed shorter, has reached the
\* source duration
C3_Witness ==
    /\ call.op = "SetEnd"
    /\ call.args[1] > duration
    /\ call.pre.end < duration
    /\ end = duration

\* C4: Trim(start, end) with start > end changes no field of the Video and
\* returns nothing.
C4_InvertedTrimNoOp ==
    [][ (call'.op = "Trim" /\ call'.args[1] > call'.args[2]) =>
            (video' = video /\ ret' = <<>>) ]_vars

\* an inverted Trim has been made on a trimmed window, which is still there
C4_Witness ==
    /\ call.op = "Trim"
    /\ call.args[1] > call.args[2]
    /\ call.pre # [start |-> 0, end |-> duration]
    /\ window = call.pre

\* the window a Trim(s, e) with s <= e has just left is [clamp(s), clamp(e)]
C5_TrimWindow ==
    (call.op = "Trim" /\ call.args[1] <= call.args[2]) =>
        /\ start = Clamped(call.args[1])
        /\ end = Clamped(call.args[2])

\* a CommandLine right after such a Trim carries them as -ss and -t
C5_TrimCompiled ==
    (/\ call.op = "Trim"
     /\ call.args[1] <= call.args[2]
     /\ call'.op = "CommandLine") =>
        /\ ret'[5] = "-ss"
        /\ ret'[6] = FormatSeconds(Clamped(call.args[1]))
        /\ ret'[7] = "-t"
        /\ ret'[8] = FormatSeconds(Clamped(call.args[2]) - Clamped(call.args[1]))

\* C5: Trim(s, e) with s <= e sets the window to [clamp(s), clamp(e)] whatever
\* it was before, and the command compiled next has -ss clamp(s) and
\* -t clamp(e) - clamp(s), in seconds.
C5_Trim == []C5_TrimWindow /\ [][C5_TrimCompiled]_vars

\* Trim(10s, 20.5s) has been made on the window [20.5s, 60s] of an earlier trim
C5_Witness ==
    /\ call.op = "Trim"
    /\ call.args = <<10 * Second, 20 * Second + 500>>
    /\ call.pre = [start |-> 20 * Second + 500, end |-> 60 * Second]
    /\ start = 10 * Second
    /\ end = 20 * Second + 500

\* C6: CommandLine(output) returns ffmpeg, -y, -i input, -ss start, -t end - start,
\* -vb bitrate, the additional arguments in the order they were appended, -vf and
\* the filter chain, -strict -2, and the output last.
C6_CommandVector ==
    call.op = "CommandLine" =>
        LET n == Len(additionalArgs)
        IN  /\ Len(ret) = 15 + n
            /\ ret[1] = "ffmpeg"
            /\ ret[2] = "-y"
            /\ ret[3] = "-i"
            /\ ret[4] = filepath
            /\ ret[5] = "-ss"
            /\ ret[6] = FormatSeconds(start)
            /\ ret[7] = "-t"
            /\ ret[8] = FormatSeconds(end - start)
            /\ ret[9] = "-vb"
            /\ ret[10] = Itoa(bitrate)
            /\ \A i \in 1..n : ret[10 + i] = additionalArgs[i]
            /\ ret[11 + n] = "-vf"
            /\ ret[12 + n] = filterChain
            /\ ret[13 + n] = "-strict"
            /\ ret[14 + n] = "-2"
            /\ ret[15 + n] = call.args[1]

\* the command of a muted, trimmed, resized Video
C6_Witness ==
    /\ call.op = "CommandLine"
    /\ ret = << "ffmpeg", "-y", "-i", "in.mp4", "-ss", "10", "-t", "10.5",
                "-vb", "200000", "-an", "-an",
                "-vf", "scale=400:300,setsar=1,fps=fps=48",
                "-strict", "-2", "out.mov" >>

\* scale=w:h for SetSize(w, h), crop=w:h:x:y for Crop(x, y, w, h)
C7_Fragment(c) ==
    IF c.op = "SetSize"
    THEN "scale=" \o Itoa(c.args[1]) \o ":" \o Itoa(c.args[2])
    ELSE "crop=" \o Itoa(c.args[3]) \o ":" \o Itoa(c.args[4])
         \o ":" \o Itoa(c.args[1]) \o ":" \o Itoa(c.args[2])

\* one fragment per call and a comma after each, then the trailing fragment
RECURSIVE C7_Chain(_)
C7_Chain(calls) ==
    IF calls = <<>>
    THEN "setsar=1,fps=fps=" \o Itoa(fps)
    ELSE C7_Fragment(Head(calls)) \o "," \o C7_Chain(Tail(calls))

\* C7: the filter-chain argument is one fragment per SetSize / Crop call, in call
\* order, joined by commas, then setsar=1,fps=fps=<frameRate>; with no such call
\* it is that trailing fragment alone.
C7_FilterChain ==
    call.op = "CommandLine" => ret[Len(ret) - 3] = C7_Chain(history)

\* the command after SetSize, Crop, SetSize
C7_Witness ==
    /\ call.op = "CommandLine"
    /\ Len(history) = 3
    /\ history[1].op = "SetSize"
    /\ history[2].op = "Crop"
    /\ history[3].op = "SetSize"
    /\ ret[Len(ret) - 3]
         = "scale=400:300,crop=200:200:0:0,scale=400:300,setsar=1,fps=fps=48"

\* C8: CommandLine changes no field of the Video, and called again with the same
\* output, with no edit in between, returns the same vector.
C8_CommandLinePure ==
    [][ call'.op = "CommandLine" =>
            /\ video' = video
            /\ (call.op = "CommandLine" /\ call.args = call'.args) => ret' = ret
      ]_vars

\* a command compiled after edits and an earlier compilation
C8_Witness ==
    /\ call.op = "CommandLine"
    /\ call.args = <<"b.mp4">>
    /\ Len(filters) = 2
    /\ Len(additionalArgs) = 1
    /\ start > 0

\* C9: in a Concatenate call made alone, the manifest is created before ffmpeg
\* is started and is absent from the file system when the call returns, whether
\* ffmpeg succeeded, ffmpeg failed or the manifest could not be written.
C9_ManifestScoped ==
    [][ \A i \in Clips :
          /\ (pc[i] = "idle" /\ pc'[i] = "running") =>
                 /\ saveErr'[i] = "nil"
                 /\ fs'[clip[i].concatListCache].exists
          /\ (pc[i] = "running" /\ pc'[i] = "idle") =>
                 ~fs'[clip[i].concatListCache].exists
      ]_vars

\* C10: a Concatenate call whose manifest could not be created or written
\* returns a manifest write error: not success, and not another failure.
C10_WriteFailureReported ==
    \A i \in Clips :
        (pc[i] = "idle" /\ result[i] # "none" /\ saveErr[i] # "nil") =>
            result[i] = "manifest write error"

\* the last argument of the command instance i's call was started with
C11_OutputArg(i) == run[i].cmd[Len(run[i].cmd)]

\* the directory of instance i's first member
C11_FirstDir(i) == filepathDir(clip[i].videosPath[1])

\* C11 as stated: the output path is the first member's directory joined with
\* the file-name part of outputName only.
C11_DirectoryDiscarded ==
    \A i \in Clips :
        run[i].cmd # << >> =>
            C11_OutputArg(i)
              = PathString(C11_FirstDir(i)) \o "/" \o filepathBase(run[i].output)

\* C11, amended: the output path is filepath.Join(directory of the first member,
\* outputName) with outputName kept whole: clips/a.mov and out/concat.mov give
\* clips/out/concat.mov, ../concat.mov gives concat.mov, and only a bare file
\* name lands in the first member's directory itself.
C11_OutputPath ==
    \A i \in Clips :
        run[i].cmd # << >> =>
            /\ C11_OutputArg(i)
                 = PathString(filepathJoin(C11_FirstDir(i), run[i].output))
            /\ Len(run[i].output) = 1 =>
                 C11_OutputArg(i)
                   = PathString(C11_FirstDir(i)) \o "/" \o run[i].output[1]
            /\ (C11_FirstDir(i) = << "clips" >>
                  /\ run[i].output = << "out", "concat.mov" >>) =>
                 C11_OutputArg(i) = "clips/out/concat.mov"
            /\ (C11_FirstDir(i) = << "clips" >>
                  /\ run[i].output = << "..", "concat.mov" >>) =>
                 C11_OutputArg(i) = "concat.mov"

\* a call with an output name that has a directory
C11_Witness ==
    \E i \in Clips :
        /\ pc[i] = "running"
        /\ clip[i].videosPath = << PathA, PathB >>
        /\ run[i].output = << "out", "concat.mov" >>
        /\ C11_OutputArg(i) = "clips/out/concat.mov"

\* C12 as stated: with bitrate 0 the command carries no -vb argument, with
\* another bitrate it carries -vb and that value.
C12_ZeroBitrateNotPassed ==
    call.op = "CommandLine" =>
        IF bitrate = 0
        THEN \A k \in 1..Len(ret) : ret[k] # "-vb"
        ELSE ret[9] = "-vb" /\ ret[10] = Itoa(bitrate)

\* C12, amended: the command always carries -vb and the bitrate, also when the
\* bitrate is 0, which is passed as -vb 0.
C12_BitrateAlwaysPassed ==
    call.op = "CommandLine" =>
        /\ ret[9] = "-vb"
        /\ ret[10] = Itoa(bitrate)
        /\ bitrate = 0 => ret[10] = "0"
        /\ Cardinality({ k \in 1..Len(ret) : ret[k] = "-vb" }) = 1

\* a command compiled with bitrate 0
C12_Witness ==
    /\ call.op = "CommandLine"
    /\ bitrate = 0
    /\ ret[9] = "-vb"
    /\ ret[10] = "0"

\* C13: for every list of member paths, the empty one included, NewClip returns
\* a failure when ffprobe is not found or a member does not exist, and otherwise
\* a Clip with the members in order and its manifest in the first member's
\* directory.
C13_NewClipReturns ==
    [][ \A i \in Clips, l \in ClipLists :
          NewClip(i, l) =>
              IF ~probeFound \/ \E k \in 1..Len(l) : l[k] \notin Videos
              THEN clip'[i].status = "error"
              ELSE /\ clip'[i].status = "ok"
                   /\ clip'[i].videosPath = l
                   /\ l # << >> =>
                        filepathDir(clip'[i].concatListCache) = filepathDir(l[1])
      ]_vars

\* one line per member, in order: file '<last element of the path>'
RECURSIVE C14_Lines(_)
C14_Lines(paths) ==
    IF paths = << >> THEN << >>
    ELSE << "file '" \o Head(paths)[Len(Head(paths))] \o "'" >>
         \o C14_Lines(Tail(paths))

\* C14: the manifest a concatenation writes holds one line per member, in list
\* order, duplicates kept, each file '<basename>', whatever the file held before
\* the call.
C14_ManifestLines ==
    \A i \in Clips :
        (pc[i] = "running" /\ saveErr[i] = "nil") =>
            /\ run[i].manifest.exists
            /\ run[i].manifest.lines = C14_Lines(clip[i].videosPath)
            /\ Len(run[i].manifest.lines) = Len(clip[i].videosPath)

\* the only Clip made, of a twice a.mov, concatenates again over the manifest
\* its earlier call left behind
C14_Witness ==
    \E i \in Clips :
        /\ \A j \in Clips \ { i } : clip[j].status = "none"
        /\ pc[i] = "running"
        /\ saveErr[i] = "nil"
        /\ clip[i].videosPath = << PathA, PathA >>
        /\ run[i].before.exists
        /\ run[i].before.lines = << "file 'a.mov'", "file 'a.mov'" >>
        /\ run[i].manifest.lines = << "file 'a.mov'", "file 'a.mov'" >>

\* Clip j was made of a list whose first member is in the directory of Clip i's
\* first member
C15_SharedDir(i, j) ==
    /\ clip[j].status = "ok"
    /\ filepathDir(clip[j].videosPath[1]) = filepathDir(clip[i].videosPath[1])

\* while Clip i's ffmpeg runs on the manifest i wrote, the file is not as i
\* wrote it
C15_Disturbed(i) ==
    /\ pc[i] = "running"
    /\ saveErr[i] = "nil"
    /\ fs[clip[i].concatListCache] # run[i].manifest

\* a step of a call on Clip j changes the manifest of Clip i's running call
C15_Touches(i, j) ==
    /\ pc[i] = "running"
    /\ saveErr[i] = "nil"
    /\ pc'[j] # pc[j]
    /\ fs'[clip[i].concatListCache] # fs[clip[i].concatListCache]

\* C15: concurrent Concatenate calls on two Clips interfere only when their
\* first members share a directory: the manifest of a running call is found
\* changed or removed, and a step of another Clip's call changes or removes it,
\* only if that other Clip has its first member in the same directory.
C15_Interference ==
    /\ [](\A i \in Clips :
            C15_Disturbed(i) => \E j \in Clips \ { i } : C15_SharedDir(i, j))
    /\ [][\A i \in Clips : \A j \in Clips \ { i } :
            C15_Touches(i, j) => C15_SharedDir(i, j)]_vars

\* two calls under way on Clips of one directory, both manifests written without
\* error, and the one file holds the list of the call that started last
C15_Witness ==
    \E i \in Clips, j \in Clips :
        /\ i # j
        /\ \A d \in Dirs : dirWritable[d]
        /\ clip[i].status = "ok"
        /\ C15_SharedDir(i, j)
        /\ pc[i] = "running" /\ pc[j] = "running"
        /\ saveErr[i] = "nil" /\ saveErr[j] = "nil"
        /\ ManifestLines(clip[i]) # ManifestLines(clip[j])
        /\ run[i].manifest.lines = ManifestLines(clip[i])
        /\ fs[clip[i].concatListCache].lines = ManifestLines(clip[j])

\* the stream Load is to take the dimensions and the rotation tag from: the
\* first with both dimensions non-zero, the first of all when there is none
RECURSIVE C17_FirstWithPicture(_)
C17_FirstWithPicture(streams) ==
    IF streams = << >> THEN << >>
    ELSE IF Head(streams).width # 0 /\ Head(streams).height # 0
    THEN << Head(streams) >>
    ELSE C17_FirstWithPicture(Tail(streams))

C17_Selected(streams) ==
    IF C17_FirstWithPicture(streams) = << >>
    THEN streams[1]
    ELSE C17_FirstWithPicture(streams)[1]

\* rotation / 90 truncated toward zero
C16_Flips(rotation) ==
    IF rotation >= 0 THEN rotation \div 90 ELSE -((-rotation) \div 90)

\* C16: the Video Load returns has the selected stream's width and height
\* swapped iff the stream has a rotation tag and rotation / 90, truncated toward
\* zero, is odd: 90, 270, -90 and -270 swap (1080x1920 gives width 1920, height
\* 1080), 0, 180, -180, 360 and a missing tag do not.
C16_RotationCorrection ==
    (call.op = "Load" /\ ret = << >>) =>
        LET s == C17_Selected(call.args[1].streams)
            r == s.rotate.value
            swapped == <<width, height>> = <<s.height, s.width>>
            kept == <<width, height>> = <<s.width, s.height>>
        IN  /\ IF s.rotate.set /\ C16_Flips(r) % 2 = 1 THEN swapped ELSE kept
            /\ (s.rotate.set /\ r \in { 90, 270, -90, -270 }) => swapped
            /\ (s.rotate.set /\ r \in { 0, 180, -180, 360 }) => kept
            /\ ~s.rotate.set => kept
            /\ (s.rotate.set /\ r = 90 /\ s.width = 1080 /\ s.height = 1920)
                  => (width = 1920 /\ height = 1080)

\* a portrait recording tagged -90 is loaded as 1920 wide, 1080 high
C16_Witness ==
    /\ call.op = "Load"
    /\ ret = << >>
    /\ call.args[1].streams
         = << [width |-> 1080, height |-> 1920, rotate |-> Tag(-90)] >>
    /\ width = 1920
    /\ height = 1080

\* C17: with streams reported, Load takes width, height and rotation tag from
\* the first stream with both dimensions non-zero, from the stream at index 0
\* when there is none; with no stream reported it returns an error and no Video.
C17_StreamSelection ==
    call.op = "Load" =>
        LET streams == call.args[1].streams
        IN  IF streams = << >>
            THEN ret # << >> /\ NoVideo
            ELSE LET s == C17_Selected(streams)
                 IN  /\ \/ \E k \in 1..Len(streams) :
                              /\ s = streams[k]
                              /\ s.width # 0 /\ s.height # 0
                              /\ \A j \in 1..(k - 1) :
                                    streams[j].width = 0 \/ streams[j].height = 0
                        \/ /\ s = streams[1]
                           /\ \A j \in 1..Len(streams) :
                                 streams[j].width = 0 \/ streams[j].height = 0
                     /\ ret = << >> <=> (s.rotate.set => s.rotate.int)
                     /\ ret = << >> =>
                          <<width, height>> =
                              IF s.rotate.set /\ C16_Flips(s.rotate.value) % 2 = 1
                              THEN <<s.height, s.width>>
                              ELSE <<s.width, s.height>>

\* the first stream has a zero width and is passed over, tag and all, for the
\* second
C17_Witness ==
    /\ call.op = "Load"
    /\ ret = << >>
    /\ call.args[1].streams
         = << [width |-> 0, height |-> 720, rotate |-> Tag(90)],
              [width |-> 640, height |-> 480, rotate |-> NoTag] >>
    /\ width = 640
    /\ height = 480

\* the (w, h) arguments of the most recent SetSize or Crop call
C18_LastSize ==
    LET c == history[Len(history)]
    IN  IF c.op = "SetSize" THEN << c.args[1], c.args[2] >>
        ELSE << c.args[3], c.args[4] >>

\* C18, as the specification states it: after any SetSize and Crop calls, with
\* arbitrary integer arguments, width >= 0 and height >= 0.
C18_NonNegative == width >= 0 /\ height >= 0

\* C18: width and height are not negative before any SetSize or Crop call, and
\* after such calls each has the sign of the argument the most recent call was
\* given for it: a negative w or h is stored as it is.
C18_SignOfArguments ==
    /\ history = << >> => C18_NonNegative
    /\ history # << >> =>
          /\ width >= 0 <=> C18_LastSize[1] >= 0
          /\ height >= 0 <=> C18_LastSize[2] >= 0

\* SetSize(-1, 300), ffmpeg's keep-the-aspect-ratio width, has just returned
C18_Witness ==
    /\ call.op = "SetSize"
    /\ call.args = << -1, 300 >>
    /\ width = -1
    /\ height = 300

\* the dimensions a report is loaded with
C19_Probed(desc) ==
    LET s == C17_Selected(desc.streams)
    IN  IF s.rotate.set /\ C16_Flips(s.rotate.value) % 2 = 1
        THEN << s.height, s.width >>
        ELSE << s.width, s.height >>

\* the fragment a call of these dimensions appends
C19_Names(c, w, h) ==
    IF c.op = "SetSize"
    THEN "scale=" \o Itoa(w) \o ":" \o Itoa(h)
    ELSE "crop=" \o Itoa(w) \o ":" \o Itoa(h)
         \o ":" \o Itoa(c.args[1]) \o ":" \o Itoa(c.args[2])

C19_AfterLoad ==
    call.op = "Load" =>
        filters = << >> /\ << Width, Height >> = C19_Probed(call.args[1])

C19_AfterResize ==
    /\ Len(filters) = Len(history)
    /\ history # << >> =>
          /\ << Width, Height >> = C18_LastSize
          /\ filters[Len(filters)]
               = C19_Names(history[Len(history)], Width, Height)

C19_OtherEdits ==
    \/ /\ call'.op \in { "SetSize", "Crop" }
       /\ history' # history
    \/ /\ call'.op \in { "SetStart", "SetEnd", "Trim", "SetFPS", "SetBitrate",
                         "Mute", "CommandLine" }
       /\ history' = history
       /\ filters' = filters
       /\ width' = width
       /\ height' = height

\* C19: Width() and Height() are the (w, h) arguments of the most recent SetSize
\* or Crop call, the dimensions the last filter names, and the probed,
\* rotation-corrected dimensions while there is no filter: Load leaves them so,
\* and SetStart, SetEnd, Trim, SetFPS, SetBitrate and Mute never change them.
C19_Dimensions ==
    /\ [](C19_AfterLoad /\ C19_AfterResize)
    /\ [][C19_OtherEdits]_vars

\* resized and cropped, then muted: still the crop's size
C19_Witness ==
    /\ call.op = "Mute"
    /\ Len(history) = 2
    /\ history[1].op = "SetSize"
    /\ history[2] = [op |-> "Crop", args |-> << 0, 0, 200, 200 >>]
    /\ filters[2] = "crop=200:200:0:0"
    /\ Width = 200
    /\ Height = 200

\* what the step of each operation leaves alone, and how the two lists grow
C20_Step ==
    /\ filepath' = filepath
    /\ duration' = duration
    /\ call'.op \in { "SetStart", "SetEnd", "Trim" } =>
          UNCHANGED <<width, height, fps, bitrate, filters, additionalArgs>>
    /\ call'.op = "SetFPS" =>
          UNCHANGED <<width, height, bitrate, start, end, filters, additionalArgs>>
    /\ call'.op = "SetBitrate" =>
          UNCHANGED <<width, height, fps, start, end, filters, additionalArgs>>
    /\ call'.op \in { "SetSize", "Crop" } =>
          /\ UNCHANGED <<fps, bitrate, start, end, additionalArgs>>
          /\ Len(filters') = Len(filters) + 1
          /\ SubSeq(filters', 1, Len(filters)) = filters
    /\ call'.op = "Mute" =>
          /\ UNCHANGED <<width, height, fps, bitrate, start, end, filters>>
          /\ Len(additionalArgs') = Len(additionalArgs) + 1
          /\ SubSeq(additionalArgs', 1, Len(additionalArgs)) = additionalArgs
          /\ additionalArgs'[Len(additionalArgs')] = "-an"
    /\ call'.op \notin { "SetSize", "Crop" } => filters' = filters
    /\ call'.op # "Mute" => additionalArgs' = additionalArgs

\* C20: no edit changes filepath or duration; SetStart, SetEnd and Trim change
\* only start and end, SetFPS only fps, SetBitrate only bitrate, SetSize and
\* Crop only width, height and filters, Mute only additionalArgs; filters and
\* additionalArgs grow by one element per SetSize / Crop / Mute call, what they
\* held staying in front, so additionalArgs is one -an per Mute call.
C20_FrameEffects ==
    /\ [][C20_Step]_vars
    /\ [](\A k \in 1..Len(additionalArgs) : additionalArgs[k] = "-an")

\* the second Mute of a Video resized and cropped before
C20_Witness ==
    /\ call.op = "Mute"
    /\ additionalArgs = << "-an", "-an" >>
    /\ filters = << "scale=400:300", "crop=200:200:0:0" >>
    /\ filepath = "in.mp4"
    /\ duration = 60 * Second

=============================================================================
